---- MODULE Spec2Model ----
(***************************************************************************)
(* A model of src/mod.ts: the Option<T> container of oxitools/option.       *)
(*                                                                         *)
(* Option instances are objects with identity: `heap` holds the private    *)
(* field #value of every instance built so far, and an instance is named   *)
(* by its index (a reference).  Instance 1 is the static Option.None.      *)
(* Every method is built on match, which takes two functions; functions    *)
(* are modelled as closure records that Apply runs.  A function supplied   *)
(* by the caller is run at most once per call, so it is given by the one   *)
(* result it produces there (a value, an Option reference or a throw).     *)
(* `last` holds the call in progress at its return: the method, its        *)
(* arguments and its outcome (result or error, the functions it invoked).  *)
(***************************************************************************)
EXTENDS Integers, Sequences, FiniteSets, TLC

VARIABLES heap, last

vars == <<heap, last>>

(* The most instances built in one run, the None singleton included. *)
MaxHeap == 3

(* The instances the second call of a pair of compared calls may build beyond
   MaxHeap; the caller drops them after the comparison. *)
PairRoom == 1

----------------------------------------------------------------------------
(* JavaScript values.  Each is written as its source literal. *)

Undefined == "undefined"

Null == "null"

True == "true"

False == "false"

Values == {Undefined, Null, "0", "''", False, True, "42"}

(* What a caller-supplied function does when run: returns a value or throws. *)
Throw == "throw"

(* The result slot of a function that returns an Option (see its ref). *)
OptionTag == "option"

(* JavaScript's ToBoolean, as `if (...)` and `&&` apply it. *)
Truthy(v) == v \notin {Undefined, Null, "0", "''", False}

(* JavaScript's ToString, as a template literal `${value}` applies it. *)
ToStr(v) == IF v = "''" THEN "" ELSE v

(* isDefined of @oxi/core: the value is neither null nor undefined. *)
isDefined(value) == value # Undefined /\ value # Null

----------------------------------------------------------------------------
(* Outcomes of running a function or a method:                             *)
(*   thrown "no" | "raise" (the container's own error) | "callback",       *)
(*   msg    the message of the container's own error,                      *)
(*   ret    the value returned (OptionTag when an Option is returned),     *)
(*   ref    the Option returned, 0 when the result is no Option,           *)
(*   alloc  the #value of the instance the call built (at most one),       *)
(*   calls  the caller-supplied functions invoked, in order, with their    *)
(*          arguments.                                                     *)

NoOut == [thrown |-> "no", msg |-> "", ret |-> "-", ref |-> 0,
          alloc |-> <<>>, calls |-> <<>>]

Val(v) == [NoOut EXCEPT !.ret = v]

Ref(r) == [NoOut EXCEPT !.ret = OptionTag, !.ref = r]

(* raise of @oxi/core: throws an Error whose message is `message`. *)
raise(message) == [NoOut EXCEPT !.thrown = "raise", !.msg = message]

(* new Option(value): a fresh instance whose #value is value. *)
constructor(value) ==
    [NoOut EXCEPT !.ret = OptionTag, !.ref = Len(heap) + 1, !.alloc = <<value>>]

(* static None: Option<never> = new Option(), built once at class definition. *)
None == 1

(* static Some(value) *)
Some(value) == constructor(value)

fromTruthy(value) == IF Truthy(value) THEN Some(value) ELSE Ref(None)

(* static from(value) *)
from(value) == IF isDefined(value) THEN Some(value) ELSE Ref(None)

(* static isOption(value): value instanceof Option.  isRef says whether the
   argument is an instance. *)
isOption(isRef) == Val(IF isRef THEN True ELSE False)

----------------------------------------------------------------------------
(* Closures. *)

TRUE_ == [c |-> "TRUE"]

FALSE_ == [c |-> "FALSE"]

IDENTITY == [c |-> "IDENTITY"]

NOOP == [c |-> "NOOP"]

(* A caller-supplied function: `name` is the parameter it is passed as, `out`
   what it returns (or Throw), `ref` the Option it returns if it returns one. *)
UserFn(name, out) == [c |-> "user", name |-> name, out |-> out, ref |-> 0]

UserOptFn(name, ref) ==
    [c |-> "user", name |-> name, out |-> OptionTag, ref |-> ref]

NoFn == [c |-> "user", name |-> "-", out |-> "-", ref |-> 0]

RunUser(cb, args) ==
    IF cb.out = Throw
    THEN [NoOut EXCEPT !.thrown = "callback",
                       !.calls = <<[fn |-> cb.name, args |-> args]>>]
    ELSE [NoOut EXCEPT !.ret = cb.out, !.ref = cb.ref,
                       !.calls = <<[fn |-> cb.name, args |-> args]>>]

RECURSIVE Apply(_, _)
(* cb(...args) *)
Apply(cb, args) ==
    CASE cb.c = "TRUE" -> Val(True)
      [] cb.c = "FALSE" -> Val(False)
      [] cb.c = "IDENTITY" -> Val(args[1])
      [] cb.c = "NOOP" -> Val(Undefined)
      [] cb.c = "user" -> RunUser(cb, args)
      (* () => raise(message) *)
      [] cb.c = "raise" -> raise(cb.message)
      (* () => defaultValue, () => undefined, () => "None" *)
      [] cb.c = "const" -> Val(cb.v)
      (* () => other, () => Option.None *)
      [] cb.c = "constRef" -> Ref(cb.ref)
      (* Option.Some passed as a function *)
      [] cb.c = "Some" -> Some(args[1])
      (* (value) => Option.Some(mapper(value)) *)
      [] cb.c = "someOfMapper" ->
            LET m == Apply(cb.mapper, args)
            IN  IF m.thrown # "no" THEN m
                ELSE [Some(m.ret) EXCEPT !.calls = m.calls]
      (* (value) => `Some(${value})` *)
      [] cb.c = "template" -> Val("Some(" \o ToStr(args[1]) \o ")")

----------------------------------------------------------------------------
(* Methods.  `self` is the receiver's reference. *)

MatchBoth(self, onSome, onNone) ==
    LET value == heap[self]
        s == Apply(onSome, <<value>>)
        n == Apply(onNone, <<>>)
    IN  IF isDefined(value)
        THEN [s EXCEPT !.calls = s.calls \o n.calls]
        ELSE [n EXCEPT !.calls = s.calls \o n.calls]

match(self, onSome, onNone) ==
    LET value == heap[self]
    IN  IF isDefined(value) THEN Apply(onSome, <<value>>)
        ELSE Apply(onNone, <<>>)

isSome(self) == match(self, TRUE_, FALSE_)

isSomeAnd(self, predicate) == match(self, predicate, FALSE_)

isNone(self) == match(self, FALSE_, TRUE_)

expectFixedMessage(self, message) ==
    match(self, IDENTITY, [c |-> "raise", message |-> "Option is None"])

expect(self, message) ==
    match(self, IDENTITY, [c |-> "raise", message |-> message])

(* The fixed message of unwrap; the source writes backquotes where this
   string has apostrophes (a TLA+ string holds no backquote). *)
UnwrapMessage == "called 'Option.unwrap()' on a 'None' value"

unwrap(self) == expect(self, UnwrapMessage)

unwrapOr(self, defaultValue) ==
    match(self, IDENTITY, [c |-> "const", v |-> defaultValue])

unwrapOrElseEager(self, onNone) ==
    LET n == Apply(onNone, <<>>)
    IN  IF n.thrown # "no" THEN n
        ELSE [unwrapOr(self, n.ret) EXCEPT !.calls = n.calls]

unwrapOrElse(self, onNone) == match(self, IDENTITY, onNone)

mapKeepsValue(self, mapper) ==
    match(self, [c |-> "Some"], [c |-> "constRef", ref |-> None])

map(self, mapper) ==
    match(self, [c |-> "someOfMapper", mapper |-> mapper],
                [c |-> "constRef", ref |-> None])

mapOr(self, defaultValue, mapper) ==
    match(self, mapper, [c |-> "const", v |-> defaultValue])

mapOrElse(self, onNone, mapper) == match(self, mapper, onNone)

inspect(self, onSome) ==
    LET m == match(self, onSome, NOOP)
    IN  IF m.thrown # "no" THEN m ELSE [Ref(self) EXCEPT !.calls = m.calls]

and(self, other) ==
    match(self, [c |-> "constRef", ref |-> other],
                [c |-> "constRef", ref |-> None])

andThen(self, mapper) == match(self, mapper, [c |-> "constRef", ref |-> None])

filterFresh(self, predicate) ==
    LET t == isSomeAnd(self, predicate)
    IN  IF t.thrown # "no" THEN t
        ELSE IF Truthy(t.ret) THEN [Some(heap[self]) EXCEPT !.calls = t.calls]
        ELSE [Ref(None) EXCEPT !.calls = t.calls]

filter(self, predicate) ==
    LET t == isSomeAnd(self, predicate)
    IN  IF t.thrown # "no" THEN t
        ELSE IF Truthy(t.ret) THEN [Ref(self) EXCEPT !.calls = t.calls]
        ELSE [Ref(None) EXCEPT !.calls = t.calls]

or(self, other) == match(self, [c |-> "Some"], [c |-> "constRef", ref |-> other])

orElse(self, onNone) == match(self, [c |-> "Some"], onNone)

xorAsOr(self, other) ==
    IF Truthy(isSome(self).ret) THEN Ref(self)
    ELSE IF Truthy(isSome(other).ret) THEN Ref(other)
    ELSE Ref(None)

xor(self, other) ==
    IF Truthy(isSome(self).ret) /\ Truthy(isNone(other).ret) THEN Ref(self)
    ELSE IF Truthy(isNone(self).ret) /\ Truthy(isSome(other).ret) THEN Ref(other)
    ELSE Ref(None)

toJSONFalsy(self) ==
    IF Truthy(heap[self]) THEN Val(heap[self]) ELSE Val(Undefined)

toJSON(self) == match(self, IDENTITY, [c |-> "const", v |-> Undefined])

toString(self) == match(self, [c |-> "template"], [c |-> "const", v |-> "None"])

----------------------------------------------------------------------------
(* The state machine: a caller that builds options and calls their methods. *)

Refs == 1 .. Len(heap)

(* What a caller-supplied function may do: return any value, or throw. *)
FnOuts == Values \cup {Throw}

(* A predicate returns a boolean (its declared type), or throws. *)
PredOuts == {True, False, Throw}

(* A function returning an Option returns an instance that exists, or throws. *)
OptFns(name) == {UserOptFn(name, r) : r \in Refs} \cup {UserFn(name, Throw)}

(* The messages a caller passes to expect. *)
Messages == {"value is not defined", ""}

Idle == [op |-> "idle", self |-> 0, other |-> 0, v |-> "-", msg |-> "-",
         f |-> NoFn, g |-> NoFn, out |-> NoOut]

(* One call, start to return: the instance it builds joins the heap, and the
   call and its outcome are recorded. *)
Call(op, self, other, v, msg, f, g, out) ==
    /\ last.op = "idle"
    /\ Len(heap) + Len(out.alloc) <= MaxHeap
    /\ heap' = heap \o out.alloc
    /\ last' = [op |-> op, self |-> self, other |-> other, v |-> v, msg |-> msg,
                f |-> f, g |-> g, out |-> out]

Init ==
    /\ heap = <<Undefined>>
    /\ last = Idle

CallSome ==
    \E value \in Values :
        LET out == Some(value)
        IN  Call("Some", 0, 0, value, "-", NoFn, NoFn, out)

CallFrom ==
    \E value \in Values :
        LET out == from(value)
        IN  Call("from", 0, 0, value, "-", NoFn, NoFn, out)

(* The argument is an instance (other) or a plain value (v). *)
CallIsOption ==
    \E r \in Refs \cup {0} : \E value \in IF r = 0 THEN Values ELSE {"-"} :
        LET out == isOption(r # 0)
        IN  Call("isOption", 0, r, value, "-", NoFn, NoFn, out)

CallMatch ==
    \E self \in Refs, s \in FnOuts, n \in FnOuts :
        LET onSome == UserFn("onSome", s)
            onNone == UserFn("onNone", n)
        IN  Call("match", self, 0, "-", "-", onSome, onNone,
                 match(self, onSome, onNone))

CallIsSome ==
    \E self \in Refs : Call("isSome", self, 0, "-", "-", NoFn, NoFn, isSome(self))

CallIsSomeAnd ==
    \E self \in Refs, p \in PredOuts :
        LET predicate == UserFn("predicate", p)
        IN  Call("isSomeAnd", self, 0, "-", "-", predicate, NoFn,
                 isSomeAnd(self, predicate))

CallIsNone ==
    \E self \in Refs : Call("isNone", self, 0, "-", "-", NoFn, NoFn, isNone(self))

CallExpect ==
    \E self \in Refs, message \in Messages :
        Call("expect", self, 0, "-", message, NoFn, NoFn, expect(self, message))

CallUnwrap ==
    \E self \in Refs : Call("unwrap", self, 0, "-", "-", NoFn, NoFn, unwrap(self))

CallUnwrapOr ==
    \E self \in Refs, d \in Values :
        Call("unwrapOr", self, 0, d, "-", NoFn, NoFn, unwrapOr(self, d))

CallUnwrapOrElse ==
    \E self \in Refs, n \in FnOuts :
        LET onNone == UserFn("onNone", n)
        IN  Call("unwrapOrElse", self, 0, "-", "-", NoFn, onNone,
                 unwrapOrElse(self, onNone))

CallMap ==
    \E self \in Refs, m \in FnOuts :
        LET mapper == UserFn("mapper", m)
        IN  Call("map", self, 0, "-", "-", mapper, NoFn, map(self, mapper))

CallMapOr ==
    \E self \in Refs, d \in Values, m \in FnOuts :
        LET mapper == UserFn("mapper", m)
        IN  Call("mapOr", self, 0, d, "-", mapper, NoFn, mapOr(self, d, mapper))

CallMapOrElse ==
    \E self \in Refs, n \in FnOuts, m \in FnOuts :
        LET mapper == UserFn("mapper", m)
            onNone == UserFn("onNone", n)
        IN  Call("mapOrElse", self, 0, "-", "-", mapper, onNone,
                 mapOrElse(self, onNone, mapper))

CallInspect ==
    \E self \in Refs, s \in FnOuts :
        LET onSome == UserFn("onSome", s)
        IN  Call("inspect", self, 0, "-", "-", onSome, NoFn, inspect(self, onSome))

CallAnd ==
    \E self \in Refs, other \in Refs :
        Call("and", self, other, "-", "-", NoFn, NoFn, and(self, other))

CallAndThen ==
    \E self \in Refs : \E mapper \in OptFns("mapper") :
        Call("andThen", self, 0, "-", "-", mapper, NoFn, andThen(self, mapper))

CallFilter ==
    \E self \in Refs, p \in PredOuts :
        LET predicate == UserFn("predicate", p)
        IN  Call("filter", self, 0, "-", "-", predicate, NoFn,
                 filter(self, predicate))

CallOr ==
    \E self \in Refs, other \in Refs :
        Call("or", self, other, "-", "-", NoFn, NoFn, or(self, other))

CallOrElse ==
    \E self \in Refs : \E onNone \in OptFns("onNone") :
        Call("orElse", self, 0, "-", "-", NoFn, onNone, orElse(self, onNone))

CallXor ==
    \E self \in Refs, other \in Refs :
        Call("xor", self, other, "-", "-", NoFn, NoFn, xor(self, other))

CallToJSON ==
    \E self \in Refs : Call("toJSON", self, 0, "-", "-", NoFn, NoFn, toJSON(self))

CallToString ==
    \E self \in Refs :
        Call("toString", self, 0, "-", "-", NoFn, NoFn, toString(self))

(* A caller that has called a.map(f) goes on to call
   a.andThen(x => Option.Some(f(x))) with the same a and f.  The function it
   passes is the one map itself passes to match.  The call is recorded with
   map's result in `other` and map's error status in `v`. *)
CallAndThenSome ==
    /\ last.op = "map"
    /\ LET mapper == [c |-> "someOfMapper", mapper |-> last.f]
           out == andThen(last.self, mapper)
       IN  /\ Len(heap) + Len(out.alloc) <= MaxHeap + PairRoom
           /\ heap' = heap \o out.alloc
           /\ last' = [op |-> "andThenSome", self |-> last.self,
                       other |-> last.out.ref, v |-> last.out.thrown,
                       msg |-> "-", f |-> last.f, g |-> NoFn, out |-> out]

(* The caller takes the result (or catches the error) and goes on. *)
Return ==
    /\ last.op \notin {"idle", "andThenSome"}
    /\ last' = Idle
    /\ UNCHANGED heap

(* The caller of the pair keeps no reference to the second result: the
   instance that call built is collected. *)
Discard ==
    /\ last.op = "andThenSome"
    /\ last' = Idle
    /\ heap' = SubSeq(heap, 1, Len(heap) - Len(last.out.alloc))

Next ==
    \/ CallSome \/ CallFrom \/ CallIsOption \/ CallMatch \/ CallIsSome
    \/ CallIsSomeAnd \/ CallIsNone \/ CallExpect \/ CallUnwrap \/ CallUnwrapOr
    \/ CallUnwrapOrElse \/ CallMap \/ CallMapOr \/ CallMapOrElse \/ CallInspect
    \/ CallAnd \/ CallAndThen \/ CallFilter \/ CallOr \/ CallOrElse \/ CallXor
    \/ CallToJSON \/ CallToString \/ CallAndThenSome \/ Return \/ Discard

Spec == Init /\ [][Next]_vars

----------------------------------------------------------------------------
(* Properties.  In a state where last.op is a method, `last` is that call at
   its return and `heap` the instances after it. *)

(* The option holds a value: its #value is neither null nor undefined. *)
Holds(k) == heap[k] # Undefined /\ heap[k] # Null

(* The one call of caller-supplied function `fn` with arguments `args`. *)
Once(fn, args) == <<[fn |-> fn, args |-> args]>>

TypeOK ==
    /\ heap \in Seq(Values)
    /\ Len(heap) \in 1 .. MaxHeap + PairRoom
    /\ (last.op # "andThenSome" => Len(heap) <= MaxHeap)
    /\ heap[None] = Undefined
    /\ last.out.ref \in 0 .. Len(heap)

(* C1: every instance other than None was built by Some(v) (Some is the only
   other caller of the constructor).  For every such instance, whatever v
   was, isSome() is true, isNone() is false and match calls onSome with v;
   None.isSome() is false. *)
C1_SomeIsPresent ==
    /\ (last.op = "isSome" /\ last.self # None => last.out.ret = True)
    /\ (last.op = "isNone" /\ last.self # None => last.out.ret = False)
    /\ (last.op = "match" /\ last.self # None =>
            last.out.calls = Once("onSome", <<heap[last.self]>>))
    /\ (last.op = "isSome" /\ last.self = None => last.out.ret = False)

(* C2: every instance for which isNone() is true is the None singleton. *)
C2_AbsentIsSingleton ==
    \A k \in Refs : isNone(k).ret = True => k = None

(* C3: from(value) returns the None singleton iff value is null or undefined;
   for every other value it returns a new Some wrapping exactly that value. *)
C3_FromNullable ==
    last.op = "from" =>
        /\ last.out.thrown = "no"
        /\ (last.out.ref = None <=> last.v \in {Null, Undefined})
        /\ (last.v \notin {Null, Undefined} =>
                /\ last.out.ref = Len(heap)
                /\ last.out.alloc = <<last.v>>
                /\ heap[last.out.ref] = last.v
                /\ isSome(last.out.ref).ret = True)

C3_Witness ==
    /\ last.op = "from"
    /\ last.v = "0"
    /\ last.out.ref # None
    /\ heap[last.out.ref] = "0"

(* C4: match invokes exactly one of its two functions, exactly once: onSome
   with the wrapped value when the option holds a value, onNone with no
   argument when it does not; it returns that function's result verbatim. *)
C4_MatchOneBranch ==
    last.op = "match" =>
        IF Holds(last.self)
        THEN /\ last.out.calls = Once("onSome", <<heap[last.self]>>)
             /\ (last.f.out # Throw =>
                    last.out.thrown = "no" /\ last.out.ret = last.f.out)
        ELSE /\ last.out.calls = Once("onNone", <<>>)
             /\ (last.g.out # Throw =>
                    last.out.thrown = "no" /\ last.out.ret = last.g.out)

C4_Witness ==
    /\ last.op = "match"
    /\ Holds(last.self)
    /\ last.f.out = "0"
    /\ last.g.out = "42"
    /\ last.out.ret = "0"

(* C5: Some(v).map(f) is a Present option wrapping f(v), whatever v is and
   whatever f returns, with f invoked exactly once; None.map(f) is None and f
   is never invoked. *)
C5_MapFunctor ==
    last.op = "map" /\ last.f.out # Throw =>
        IF last.self # None
        THEN /\ last.out.thrown = "no"
             /\ last.out.ref \in Refs
             /\ heap[last.out.ref] = last.f.out
             /\ isSome(last.out.ref).ret = True
             /\ last.out.calls = Once("mapper", <<heap[last.self]>>)
        ELSE /\ last.out.ref = None
             /\ last.out.calls = <<>>

(* C6: when the receiver holds a value, or(other) and orElse(onNone) return
   the receiver itself; when it does not, or returns other and orElse returns
   the result of onNone(). *)
C6_OrReturnsThis ==
    /\ (last.op = "or" =>
            IF Holds(last.self) THEN last.out.ref = last.self
            ELSE last.out.ref = last.other)
    /\ (last.op = "orElse" /\ last.g.out # Throw =>
            IF Holds(last.self) THEN last.out.ref = last.self
            ELSE /\ last.out.ref = last.g.ref
                 /\ last.out.calls = Once("onNone", <<>>))

(* C7: a.xor(b) holds a value iff exactly one of a, b does, and it is then
   that operand itself; when both or neither do, the result is None. *)
C7_Xor ==
    last.op = "xor" =>
        /\ last.out.thrown = "no"
        /\ (Holds(last.out.ref) <=> (Holds(last.self) # Holds(last.other)))
        /\ (Holds(last.self) /\ ~Holds(last.other) => last.out.ref = last.self)
        /\ (~Holds(last.self) /\ Holds(last.other) => last.out.ref = last.other)
        /\ (Holds(last.self) = Holds(last.other) => last.out.ref = None)

C7_Witness ==
    /\ last.op = "xor"
    /\ Holds(last.self)
    /\ Holds(last.other)
    /\ last.self # last.other
    /\ last.out.ref = None

(* C8: a.filter(p) holds a value iff a does and p(value) is true, and it is
   then the receiver itself, unchanged; in every other case the result is
   None, and p is not invoked when a holds no value. *)
C8_Filter ==
    last.op = "filter" /\ ~(Holds(last.self) /\ last.f.out = Throw) =>
        /\ last.out.thrown = "no"
        /\ (Holds(last.out.ref) <=> (Holds(last.self) /\ last.f.out = True))
        /\ IF Holds(last.self) /\ last.f.out = True
           THEN /\ last.out.ref = last.self
                /\ last.out.alloc = <<>>
           ELSE last.out.ref = None
        /\ last.out.calls =
              IF Holds(last.self) THEN Once("predicate", <<heap[last.self]>>)
              ELSE <<>>

C8_Witness ==
    /\ last.op = "filter"
    /\ Holds(last.self)
    /\ last.f.out = True
    /\ last.out.ref = last.self

(* C9: for every v that is neither null nor undefined,
   from(Some(v).toJSON()) is a new option holding v; from(None.toJSON()) is
   None. *)
C9_RoundTrip ==
    last.op = "toJSON" =>
        LET back == from(last.out.ret)
        IN  /\ last.out.thrown = "no"
            /\ (Holds(last.self) =>
                    /\ back.ref = Len(heap) + 1
                    /\ back.alloc = <<heap[last.self]>>)
            /\ (last.self = None => back.ref = None /\ back.alloc = <<>>)

C9_Witness ==
    /\ last.op = "toJSON"
    /\ last.self # None
    /\ heap[last.self] = "0"
    /\ last.out.ret = "0"
    /\ from(last.out.ret).alloc = <<"0">>

(* C10: expect(msg) returns the wrapped value when the option holds one and
   otherwise raises an error whose message is msg; unwrap() does the same
   with its fixed message; no other operation raises an error of its own. *)
C10_ExpectUnwrap ==
    /\ (last.op = "expect" =>
            IF Holds(last.self)
            THEN last.out.thrown = "no" /\ last.out.ret = heap[last.self]
            ELSE last.out.thrown = "raise" /\ last.out.msg = last.msg)
    /\ (last.op = "unwrap" =>
            IF Holds(last.self)
            THEN last.out.thrown = "no" /\ last.out.ret = heap[last.self]
            ELSE /\ last.out.thrown = "raise"
                 /\ last.out.msg = "called 'Option.unwrap()' on a 'None' value")
    /\ (last.op \notin {"expect", "unwrap"} => last.out.thrown # "raise")

C10_Witness ==
    /\ last.op = "expect"
    /\ ~Holds(last.self)
    /\ last.msg = "value is not defined"
    /\ last.out.thrown = "raise"
    /\ last.out.msg = "value is not defined"

(* C11: Some(v).andThen(f) is exactly the option f(v) returns, whatever v is,
   with f invoked once; None.andThen(f) is None and f is never invoked.
   (Every instance other than None was built by Some(v).) *)
C11_AndThenLeftIdentity ==
    last.op = "andThen" /\ last.f.out # Throw =>
        IF last.self # None
        THEN /\ last.out.thrown = "no"
             /\ last.out.ref = last.f.ref
             /\ last.out.alloc = <<>>
             /\ last.out.calls = Once("mapper", <<heap[last.self]>>)
        ELSE /\ last.out.ref = None
             /\ last.out.calls = <<>>

(* C12: for every option a and function f, a.andThen(x => Some(f(x))) and
   a.map(f) behave identically: both throw or neither does, and the two
   results agree under isSome, match (with any two functions), toJSON and
   toString. *)
C12_MapAndThenCoherent ==
    last.op = "andThenSome" =>
        /\ last.out.thrown = last.v
        /\ (last.v = "no" =>
              /\ last.other \in Refs
              /\ last.out.ref \in Refs
              /\ isSome(last.out.ref) = isSome(last.other)
              /\ toJSON(last.out.ref) = toJSON(last.other)
              /\ toString(last.out.ref) = toString(last.other)
              /\ \A s \in FnOuts, n \in FnOuts :
                    match(last.out.ref, UserFn("onSome", s), UserFn("onNone", n))
                      = match(last.other, UserFn("onSome", s), UserFn("onNone", n)))

C12_Witness ==
    /\ last.op = "andThenSome"
    /\ heap[last.self] = "0"
    /\ last.f.out = "42"
    /\ last.other # last.out.ref
    /\ toJSON(last.other).ret = "42"
    /\ toJSON(last.out.ref).ret = "42"
    /\ toString(last.out.ref).ret = "Some(42)"

(* C13: unwrapOr(d) invokes no caller-supplied function and returns the
   wrapped value if the option holds one, else d; unwrapOrElse(f) invokes f
   exactly once if the option holds no value and never if it holds one, and
   returns the wrapped value if there is one, else f's result. *)
C13_Fallback ==
    /\ (last.op = "unwrapOr" =>
            /\ last.out.thrown = "no"
            /\ last.out.calls = <<>>
            /\ last.out.ret = IF Holds(last.self) THEN heap[last.self]
                              ELSE last.v)
    /\ (last.op = "unwrapOrElse" =>
            IF Holds(last.self)
            THEN /\ last.out.thrown = "no"
                 /\ last.out.calls = <<>>
                 /\ last.out.ret = heap[last.self]
            ELSE /\ last.out.calls = Once("onNone", <<>>)
                 /\ (last.g.out # Throw =>
                        last.out.thrown = "no" /\ last.out.ret = last.g.out))

C13_Witness ==
    /\ last.op = "unwrapOrElse"
    /\ Holds(last.self)
    /\ heap[last.self] = "0"
    /\ last.g.out = "42"
    /\ last.out.ret = "0"
    /\ last.out.calls = <<>>

====
